---- MODULE Spec2Model ----
(***************************************************************************)
(* State-machine model of the node-storage and memoization core of rsdd:   *)
(*   - BackedRobinHoodTable (src/src/robin_hood.rs), the unique table;     *)
(*   - Lru and BddApplyTable (src/src/manager/cache/lru.rs, bdd_app.rs);   *)
(*   - BddTable (src/src/backing_store/bdd_table_robinhood.rs).            *)
(* Each component has its own specification over the shared variables; the *)
(* variables of the other components keep their initial value.             *)
(***************************************************************************)
EXTENDS Integers, Sequences, FiniteSets, TLC

VARIABLES
  store,   \* the BackedRobinHoodTable under test (robin_hood.rs:55-68)
  frame,   \* the activation of get_or_insert on store: locals and position
  lru,     \* the Lru<u64, u64> under test (lru.rs:66-75)
  lruLast, \* the last call on lru: operation, arguments, slot and result
  lruLog,  \* history: the insert calls made on lru, in order
  lruGets, \* history: how many get calls were made on lru, and how many returned None
  app,     \* the BddApplyTable under test (bdd_app.rs:43-46)
  appLast, \* the last call on app: operation, arguments and result
  appLog,  \* history: the insert calls made on app, in order
  iteFnv,  \* the FNV hash of the Ite keys hashed so far
  bt,      \* the BddTable under test (bdd_table_robinhood.rs:11-14)
  btLog,   \* history: the get_or_insert calls made on bt and what they returned
  btNew,   \* history, kept under SpecNewLast: the length of the order bt was made
           \* with, and the labels that the new_last calls on bt returned, in order
  pairHash, \* the XxHash of the (low, high) pairs hashed so far
  sdd,     \* the SddTable under test (sdd_table.rs:27-31)
  sddTree, \* the vtree sdd was built from
  sddLast, \* the last call on sdd: operation, arguments, outcome and result
  sddLog,  \* history: the get_or_insert_sdd calls that returned, in order
  listHash, \* the hash of the or-lists hashed so far
  at,      \* the ApplyTable under test (apply_cache.rs:175-178)
  atLog,   \* history: the insert calls made on at that returned (operation, result)
  atLast,  \* the last call on at: its kind and, for a get, its result
  acHash,  \* hash_pair (apply_cache.rs:73-78): the hash of each operand pair
  elemNew  \* the last call of HashTableElement::new: its arguments and its result

rhVars == <<store, frame>>
lruVars == <<lru, lruLast, lruLog, lruGets>>
appVars == <<app, appLast, appLog, iteFnv>>
btVars == <<bt, btLog, btNew, pairHash>>
sddVars == <<sdd, sddTree, sddLast, sddLog, listHash>>
atVars == <<at, atLog, atLast, acHash>>
elVars == <<elemNew>>
vars ==
  <<store, frame, lru, lruLast, lruLog, lruGets, app, appLast, appLog, iteFnv, bt, btLog,
    btNew, pairHash,
    sdd, sddTree, sddLast, sddLog, listHash, at, atLog, atLast, acHash, elemNew>>

\* what the operations of one component leave alone
notRH == <<lruVars, appVars, btVars, sddVars, atVars, elVars>>
notLru == <<rhVars, appVars, btVars, sddVars, atVars, elVars>>
notApp == <<rhVars, lruVars, btVars, sddVars, atVars, elVars>>
notBt == <<rhVars, lruVars, appVars, sddVars, atVars, elVars>>
notSdd == <<rhVars, lruVars, appVars, btVars, atVars, elVars>>
notAt == <<rhVars, lruVars, appVars, btVars, sddVars, elVars>>
notEl == <<rhVars, lruVars, appVars, btVars, sddVars, atVars>>

SetMax(S) == CHOOSE x \in S : \A y \in S : y <= x

\* ---------------------------------------------------------------- bounds

\* inputs are the pairs (mk_ptr(i), mk_ptr(j)), i in 0..MaxLowIdx, j in HighIdxs
MaxLowIdx == 2
\* BackedRobinHoodTable::new(sz, ..) is called with sz in 1..MaxSz
MaxSz == 2
\* calls are made while the element buffer holds fewer than MaxElems entries
MaxElems == 5
\* Lru<u64, u64>: keys 0..MaxKey, values 0..MaxVal, Lru::new(p) with p in 0..MaxPow
MaxKey == 2
MaxVal == 1
MaxPow == 2
\* at most MaxLruOps calls are made on lru, at most MaxAppOps on app
MaxLruOps == 4
MaxAppOps == 2
\* at most MaxBddOps get_or_insert calls are made on the BddTable
MaxBddOps == 4
\* at most MaxSddOps get_or_insert_sdd calls return on the SddTable
MaxSddOps == 2
\* at most MaxAtOps insert calls return on the ApplyTable
MaxAtOps == 3

\* ------------------------------------------------------------- arithmetic

RECURSIVE Pow2(_)
Pow2(n) == IF n = 0 THEN 1 ELSE 2 * Pow2(n - 1)

RECURSIVE next_power_of_two_from(_, _)
next_power_of_two_from(p, n) == IF p >= n THEN p ELSE next_power_of_two_from(2 * p, n)

\* usize::next_power_of_two: the smallest power of two >= n (1 for n = 0)
next_power_of_two(n) == next_power_of_two_from(1, n)

\* ------------------------------------------------- robin_hood.rs: constants

\* LOAD_FACTOR = 0.8, kept as the exact ratio 8/10
LOAD_FACTOR_NUM == 8
LOAD_FACTOR_DEN == 10

\* widths of the fields of HashTableElement.data (the ranges of BITFIELD!)
OCCUPIED_BITS == 1
OFFSET_BITS == 5
HASH_BITS == 4
IDX_BITS == 22

\* the table of test_simple: BackedRobinHoodTable::new(_, 0, 0), mk_ptr = BddPtr::new(0, 0, idx)
TABLE_VAR == 0
TABLE_ID == 0

\* ------------------------------------------------------ robin_hood.rs: data

\* BddPtr::new(var, tbl_id, idx), with get_var, get_subtable, get_index
BddPtr_new(var, tbl_id, idx) == [var |-> var, subtable |-> tbl_id, idx |-> idx]

mk_ptr(idx) == BddPtr_new(0, 0, idx)

ToplessBdd_new(low, high) == [low |-> low, high |-> high]

None == <<>>
Some(v) == <<v>>
is_none(o) == o = <<>>
unwrap(o) == o[1]

\* BITFIELD! setter: (val << start) & mask keeps the low `bits` bits of val
set_field(val, bits) == val % Pow2(bits)

set_occupied(e, val) == [e EXCEPT !.occupied = set_field(val, OCCUPIED_BITS)]
set_offset(e, val) == [e EXCEPT !.offset = set_field(val, OFFSET_BITS)]
set_hash(e, val) == [e EXCEPT !.hash = set_field(val, HASH_BITS)]
set_idx(e, val) == [e EXCEPT !.idx = set_field(val, IDX_BITS)]

\* a zeroed cell (ptr::write_bytes(vec_ptr, 0, tbl_sz))
ZeroElement == [occupied |-> 0, offset |-> 0, hash |-> 0, idx |-> 0]

(***************************************************************************)
(* hash_pair: XxHash64 with seed 0xdeadbeef over the 12 bytes              *)
(* low.index (u32), low.var (u16), high.index (u32), high.var (u16).       *)
(* The 64-bit value is kept as the two parts the table reads: `lo`, the    *)
(* low 16 bits (hash_v as usize % cap, cap a power of two), and `hi`, the  *)
(* low 8 bits of hash >> 32 (set_hash keeps 4 of them). The values are     *)
(* those of XxHash64 on the pointers mk_ptr(i), mk_ptr(j).                 *)
(***************************************************************************)
XxHash64 ==
  (
     <<0, 0>> :> [hi |-> 89, lo |-> 53493] @@ <<0, 1>> :> [hi |-> 201, lo |-> 39099] @@
     <<0, 2>> :> [hi |-> 64, lo |-> 4636] @@ <<0, 3>> :> [hi |-> 40, lo |-> 24806] @@
     <<1, 0>> :> [hi |-> 253, lo |-> 57026] @@ <<1, 1>> :> [hi |-> 92, lo |-> 20097] @@
     <<1, 2>> :> [hi |-> 101, lo |-> 11701] @@ <<1, 3>> :> [hi |-> 123, lo |-> 53796] @@
     <<2, 0>> :> [hi |-> 189, lo |-> 44416] @@ <<2, 1>> :> [hi |-> 210, lo |-> 57740] @@
     <<2, 2>> :> [hi |-> 123, lo |-> 14677] @@ <<2, 3>> :> [hi |-> 36, lo |-> 55381] @@
     <<3, 0>> :> [hi |-> 27, lo |-> 19848] @@ <<3, 1>> :> [hi |-> 162, lo |-> 64257] @@
     <<3, 2>> :> [hi |-> 176, lo |-> 31954] @@ <<3, 3>> :> [hi |-> 94, lo |-> 35081] @@
     <<4, 0>> :> [hi |-> 162, lo |-> 31800] @@ <<4, 1>> :> [hi |-> 89, lo |-> 37957] @@
     <<4, 2>> :> [hi |-> 0, lo |-> 13349] @@ <<4, 3>> :> [hi |-> 88, lo |-> 54135] )

hash_pair(low, high) == XxHash64[<<low.idx, high.idx>>]

\* (hash_v as usize) % self.cap
bucket(hash_v, cap) == hash_v.lo % cap

HashTableElement_new(idx, hash_v) ==
  set_idx(set_hash(set_occupied(ZeroElement, 1), hash_v.hi), idx)

\* the element indices HashTableElement::new is called with (self.elem.len()
\* as u32, robin_hood.rs:124): the first ones, those around the end of the
\* 22-bit field, and two larger ones
ElemIdxs ==
  {0, 1, 2} \cup {Pow2(IDX_BITS) + d : d \in {-1, 0, 1, 2}} \cup
  {2 * Pow2(IDX_BITS) + 1, 3 * Pow2(IDX_BITS) + 5}

\* the hashes HashTableElement::new is called with
ElemHashes == {XxHash64[k] : k \in DOMAIN XxHash64}

NoElemCall == [op |-> "none", idx |-> 0, hash_v |-> [hi |-> 0, lo |-> 0], elem |-> ZeroElement]

\* robin_hood.rs:43-51, HashTableElement::new(idx, hash): the setters of
\* BITFIELD! (robin_hood.rs:20-24) return nothing and have no failing path
element_new(idx, hash_v) ==
  /\ UNCHANGED notEl
  /\ elemNew' = [op |-> "new", idx |-> idx, hash_v |-> hash_v,
                 elem |-> HashTableElement_new(idx, hash_v)]

ElemUnused == elemNew = NoElemCall

\* -------------------------------------------- robin_hood.rs: the state machine

\* BackedRobinHoodTable::new(sz, var, tbl_id)
BackedRobinHoodTable_new(sz, var, tbl_id) ==
  LET tbl_sz == next_power_of_two(((sz * (LOAD_FACTOR_DEN + LOAD_FACTOR_NUM)) \div LOAD_FACTOR_DEN))
  IN [tbl |-> [p \in 0..(tbl_sz - 1) |-> ZeroElement],
      elem |-> <<>>,
      var |-> var,
      tbl_id |-> tbl_id,
      cap |-> tbl_sz,
      len |-> 0]

\* no call of get_or_insert is active
IdleFrame ==
  [pc |-> "idle", low |-> mk_ptr(0), high |-> mk_ptr(0), pos |-> 0,
   searcher |-> ZeroElement, found |-> None, ret |-> None, entry_len |-> 0]

is_occupied(t, pos) == t.tbl[pos].occupied = 1

\* self.elem[self.tbl[pos].idx() as usize]; elem is 1-based in the model
get_pos(t, pos) == t.elem[t.tbl[pos].idx + 1]

probe_distance(t, pos) == t.tbl[pos].offset

\* assert!(sz < self.cap as f64) with sz = ((len + 1) * LOAD_FACTOR) / cap
capacity_assert(t) == (t.len + 1) * LOAD_FACTOR_NUM < t.cap * t.cap * LOAD_FACTOR_DEN

\* the handle a return of get_or_insert carries
issued_ptr(t, idx) == BddPtr_new(t.var, t.tbl_id, idx)

\* the index the fresh element gets: self.elem.len() as u32
fresh_idx(t) == Len(t.elem)

\* robin_hood.rs:131, the comparison that decides a hit
same_pair(this_bdd, low, high) == this_bdd.low = low /\ this_bdd.high = high

\* robin_hood.rs:136, the Robin-Hood swap condition
richer(cur_itm, searcher) == cur_itm.offset < searcher.offset

\* a push that ignores what was already appended
must_push_always(found) == TRUE

\* robin_hood.rs:139 and :154, whether the pair still has to be appended
must_push(found) == is_none(found)

\* the handle of the element that the swap displaces
swap_found_displaced(t, searcher, cur_itm) == issued_ptr(t, cur_itm.idx)

\* robin_hood.rs:142, the handle remembered at the first swap
swap_found(t, searcher, cur_itm) == issued_ptr(t, searcher.idx)

\* robin_hood.rs:117-124: entry of get_or_insert up to the loop
get_or_insert_enter(low, high) ==
  /\ UNCHANGED notRH
  /\ frame.pc = "idle"
  /\ Len(store.elem) < MaxElems
  /\ IF ~capacity_assert(store)
     THEN /\ frame' = [frame EXCEPT !.pc = "panic", !.low = low, !.high = high, !.ret = None]
          /\ UNCHANGED store
     ELSE LET hash_v == hash_pair(low, high) IN
          /\ frame' = [pc |-> "loop", low |-> low, high |-> high,
                       pos |-> bucket(hash_v, store.cap),
                       searcher |-> HashTableElement_new(fresh_idx(store), hash_v),
                       found |-> None, ret |-> None, entry_len |-> Len(store.elem)]
          /\ UNCHANGED store

\* robin_hood.rs:125-163: one iteration of the loop of get_or_insert
get_or_insert_loop ==
  /\ UNCHANGED notRH
  /\ frame.pc = "loop"
  /\ LET pos == frame.pos
         searcher == frame.searcher
         cur_itm == store.tbl[pos]
         low == frame.low
         high == frame.high
     IN IF cur_itm.occupied = 1
        THEN IF cur_itm.hash = searcher.hash /\ same_pair(get_pos(store, pos), low, high)
             THEN \* :132
                  /\ frame' = [frame EXCEPT !.pc = "idle",
                                            !.ret = Some(issued_ptr(store, cur_itm.idx))]
                  /\ UNCHANGED store
             ELSE LET swap == richer(cur_itm, searcher)
                      push == swap /\ must_push(frame.found)
                      next_searcher == IF swap THEN cur_itm ELSE searcher
                  IN /\ store' = [store EXCEPT
                           !.elem = IF push THEN Append(@, ToplessBdd_new(low, high)) ELSE @,
                           !.len = IF push THEN @ + 1 ELSE @,
                           !.tbl = IF swap THEN [@ EXCEPT ![pos] = searcher] ELSE @]
                     /\ frame' = [frame EXCEPT
                           !.found = IF push THEN Some(swap_found(store, searcher, cur_itm)) ELSE @,
                           !.searcher = set_offset(next_searcher, next_searcher.offset + 1),
                           !.pos = (pos + 1) % store.cap]
        ELSE IF must_push(frame.found)
             THEN \* :155-158
                  /\ store' = [store EXCEPT
                        !.elem = Append(@, ToplessBdd_new(low, high)),
                        !.len = @ + 1,
                        !.tbl = [@ EXCEPT ![pos] = searcher]]
                  /\ frame' = [frame EXCEPT !.pc = "idle",
                                            !.ret = Some(issued_ptr(store, searcher.idx))]
             ELSE \* :160, the element carried by searcher is not stored
                  /\ frame' = [frame EXCEPT !.pc = "idle", !.ret = Some(unwrap(frame.found))]
                  /\ UNCHANGED store

\* robin_hood.rs:169-188, find; the walk ends after cap steps without a hit
\* or a free cell exactly when the loop of find never ends ("diverges")
RECURSIVE find_from(_, _, _, _, _, _)
find_from(t, low, high, searcher, pos, steps) ==
  IF steps = t.cap THEN "diverges"
  ELSE LET cur_itm == t.tbl[pos] IN
       IF cur_itm.occupied = 1
       THEN IF cur_itm.hash = searcher.hash /\ same_pair(get_pos(t, pos), low, high)
            THEN Some(issued_ptr(t, cur_itm.idx))
            ELSE find_from(t, low, high, searcher, (pos + 1) % t.cap, steps + 1)
       ELSE None

find(t, low, high) ==
  LET hash_v == hash_pair(low, high)
  IN find_from(t, low, high, HashTableElement_new(fresh_idx(t), hash_v), bucket(hash_v, t.cap), 0)

\* robin_hood.rs:191-194, deref ("panic" when the assertion fails)
deref(t, ptr) ==
  IF ptr.subtable = t.tbl_id /\ ptr.var = t.var THEN t.elem[ptr.idx + 1] ELSE "panic"

\* the high children of the inserted pairs: mk_ptr(0) and mk_ptr(1)
HighIdxs == {0, 1}

\* ------------------------------------------------------------ lru.rs: Lru

RECURSIVE BitAnd(_, _)
\* the bitwise and of two non-negative integers
BitAnd(a, b) ==
  IF a = 0 \/ b = 0 THEN 0
  ELSE (a % 2) * (b % 2) + 2 * BitAnd(a \div 2, b \div 2)

\* a mask that keeps bit p instead of the p bits below it
mask_single_bit(p) == Pow2(p)

\* lru.rs:29-31
mask(p) == Pow2(p) - 1

\* lru.rs:40-42
pow_cap(v, p) == BitAnd(v, mask(p))

\* lru.rs:34-36
wrap_add(v, p) == BitAnd(v + 1, mask(p))

\* lru.rs:18-25; utilization is kept as the ratio num / den
ApplyCacheStats_new ==
  [lookup_count |-> 0, miss_count |-> 0, conflict_count |-> 0,
   utilization |-> [num |-> 0, den |-> 1]]

\* Vec<Option<Element>>: its length and the slots that are Some; every other
\* index below len is None
zero_vec(n) == [len |-> n, at |-> <<>>]
vec_in_bounds(v, i) == 0 <= i /\ i < v.len
vec_get(v, i) == IF i \in DOMAIN v.at THEN Some(v.at[i]) ELSE None
vec_set_some(v, i, e) == [v EXCEPT !.at = (i :> e) @@ @]
vec_count_some(v) == Cardinality(DOMAIN v.at)

\* lru.rs:60-62
Element_new(key, val) == [key |-> key, val |-> val]

\* lru.rs:83-91
Lru_new(cap) ==
  [tbl |-> zero_vec(Pow2(cap)), len |-> 0, cap |-> cap, stat |-> ApplyCacheStats_new]

\* lru.rs:106 and :119, the slot of a hash value
Lru_pos(l, hash_v) == pow_cap(hash_v, l.cap)

\* an insert that counts a conflict only when the slot holds another key
Lru_insert_other_key_conflicts(l, hash_v, key, val) ==
  LET pos == Lru_pos(l, hash_v)
      e == Element_new(key, val)
      old == vec_get(l.tbl, pos)
  IN [l EXCEPT
        !.stat.conflict_count = IF ~is_none(old) /\ unwrap(old).key # key THEN @ + 1 ELSE @,
        !.tbl = vec_set_some(@, pos, e)]

\* lru.rs:102-112; hash_v is hasher.finish() for key
Lru_insert(l, hash_v, key, val) ==
  LET pos == Lru_pos(l, hash_v)
      e == Element_new(key, val)
  IN [l EXCEPT
        !.stat.conflict_count = IF ~is_none(vec_get(l.tbl, pos)) THEN @ + 1 ELSE @,
        !.tbl = vec_set_some(@, pos, e)]

\* a comparison that accepts every occupied slot
key_matches_any(e, key) == TRUE

\* lru.rs:122, the guard `v.key == key`
key_matches(e, key) == e.key = key

\* lru.rs:114-127: the value returned
Lru_get_result(l, hash_v, key) ==
  LET v == vec_get(l.tbl, Lru_pos(l, hash_v))
  IN IF ~is_none(v) /\ key_matches(unwrap(v), key) THEN Some(unwrap(v).val) ELSE None

\* a get that counts a miss on every lookup
Lru_get_always_misses(l, hash_v, key) ==
  [l EXCEPT !.stat.lookup_count = @ + 1, !.stat.miss_count = @ + 1]

\* lru.rs:114-127: the table after the call
Lru_get(l, hash_v, key) ==
  [l EXCEPT
     !.stat.lookup_count = @ + 1,
     !.stat.miss_count = IF is_none(Lru_get_result(l, hash_v, key)) THEN @ + 1 ELSE @]

\* statistics that take the len field for the number of filled slots
Lru_get_stats_len_field(l) ==
  [l.stat EXCEPT !.utilization = [num |-> l.len, den |-> l.tbl.len]]

\* lru.rs:166-177
Lru_get_stats(l) ==
  [l.stat EXCEPT !.utilization = [num |-> vec_count_some(l.tbl), den |-> l.tbl.len]]

(***************************************************************************)
(* FnvHasher over the 8 little-endian bytes of a u64 key (u64::hash calls   *)
(* write_u64): FNV-1a with the 64-bit offset basis and prime. The table     *)
(* holds the low 24 bits of the hash of the keys 0..5; pow_cap reads fewer. *)
(***************************************************************************)
FnvU64 ==
  ( 0 :> 1718725 @@ 1 :> 2813860 @@ 2 :> 16305671 @@
    3 :> 623590 @@ 4 :> 6099265 @@ 5 :> 7194400 )

NoCall == [op |-> "none", key |-> 0, val |-> 0, hash_v |-> 0, pos |-> 0, result |-> None]

\* lru.rs:102-112, Lru::insert(key, val); tbl[pos] panics out of bounds
lru_insert(key, val) ==
  /\ UNCHANGED notLru
  /\ lruLast.op # "panic"
  /\ Len(lruLog) + lruGets.calls < MaxLruOps
  /\ LET hash_v == FnvU64[key]
         pos == Lru_pos(lru, hash_v)
     IN IF ~vec_in_bounds(lru.tbl, pos)
        THEN /\ lruLast' = [op |-> "panic", key |-> key, val |-> val, hash_v |-> hash_v,
                            pos |-> pos, result |-> None]
             /\ UNCHANGED <<lru, lruLog, lruGets>>
        ELSE /\ lru' = Lru_insert(lru, hash_v, key, val)
             /\ lruLog' = Append(lruLog, Element_new(key, val))
             /\ UNCHANGED lruGets
             /\ lruLast' = [op |-> "insert", key |-> key, val |-> val, hash_v |-> hash_v,
                            pos |-> pos, result |-> None]

\* lru.rs:114-127, Lru::get(key)
lru_get(key) ==
  /\ UNCHANGED notLru
  /\ lruLast.op # "panic"
  /\ Len(lruLog) + lruGets.calls < MaxLruOps
  /\ LET hash_v == FnvU64[key]
         pos == Lru_pos(lru, hash_v)
     IN IF ~vec_in_bounds(lru.tbl, pos)
        THEN /\ lruLast' = [op |-> "panic", key |-> key, val |-> 0, hash_v |-> hash_v,
                            pos |-> pos, result |-> None]
             /\ UNCHANGED <<lru, lruLog, lruGets>>
        ELSE /\ lru' = Lru_get(lru, hash_v, key)
             /\ lruLast' = [op |-> "get", key |-> key, val |-> 0, hash_v |-> hash_v,
                            pos |-> pos, result |-> Lru_get_result(lru, hash_v, key)]
             /\ lruGets' = [calls |-> lruGets.calls + 1,
                            none |-> lruGets.none +
                                     IF is_none(Lru_get_result(lru, hash_v, key)) THEN 1 ELSE 0]
             /\ UNCHANGED lruLog

NoGets == [calls |-> 0, none |-> 0]

LruUnused == lru = Lru_new(0) /\ lruLast = NoCall /\ lruLog = <<>> /\ lruGets = NoGets

\* --------------------------------------------- bdd_app.rs: BddApplyTable

(***************************************************************************)
(* The handle type of repr::bdd, which bdd_app.rs imports: the constants    *)
(* true and false, related by complementation, or a node reference with a   *)
(* complement bit; neg flips the complement bit and equality is equality of *)
(* the whole word.                                                          *)
(***************************************************************************)
true_node == [special |-> TRUE, var |-> 0, idx |-> 0, compl |-> FALSE]
false_node == [special |-> TRUE, var |-> 0, idx |-> 0, compl |-> TRUE]
node_ptr(var, idx) == [special |-> FALSE, var |-> var, idx |-> idx, compl |-> FALSE]
neg(p) == [p EXCEPT !.compl = ~@]
is_compl(p) == p.compl

\* bdd_app.rs:5, the capacity as a power of two
INITIAL_CAPACITY == 20

\* the standardisation of bdd_app.rs:30-35 with the complement flag forgotten
Ite_new_forgets_compl(f, g, h) ==
  IF is_compl(f) /\ ~is_compl(h) THEN <<[f |-> neg(f), g |-> h, h |-> g], FALSE>>
  ELSE IF ~is_compl(f) /\ is_compl(g) THEN <<[f |-> f, g |-> neg(g), h |-> neg(h)], FALSE>>
  ELSE IF is_compl(f) /\ is_compl(h) THEN <<[f |-> neg(f), g |-> neg(h), h |-> neg(g)], FALSE>>
  ELSE <<[f |-> f, g |-> g, h |-> h], FALSE>>

\* bdd_app.rs:17-39: the live body is line 38, the standardisation is commented out
Ite_new(f, g, h) == <<[f |-> f, g |-> g, h |-> h], FALSE>>

\* a store that complements the result whatever the flag says
stored_result_negated(compl, res) == neg(res)

\* bdd_app.rs:60, the value handed to Lru::insert
stored_result(compl, res) == IF compl THEN neg(res) ELSE res

\* bdd_app.rs:68-72, the value get returns for the Lru's answer r
returned_result(compl, r) ==
  IF compl THEN (IF is_none(r) THEN None ELSE Some(neg(unwrap(r)))) ELSE r

\* bdd_app.rs:49-54
BddApplyTable_new == [table |-> Lru_new(INITIAL_CAPACITY)]

\* the handles the operations are called with: the two constants, each the
\* complement of the other
Handles == {true_node, false_node}

(***************************************************************************)
(* Ite derives Hash from the Hash of the handle type, so the FNV-1a value   *)
(* of an Ite is a function of the key that this module does not fix: each   *)
(* key gets its value the first time it is hashed (iteFnv) and keeps it.    *)
(* One of the values has a bit above the 20 that pow_cap keeps.             *)
(***************************************************************************)
IteHashes == {1, Pow2(INITIAL_CAPACITY)}

hashes_to(ite, hash_v) ==
  /\ hash_v \in IteHashes
  /\ ite \in DOMAIN iteFnv => hash_v = iteFnv[ite]
  /\ iteFnv' = (ite :> hash_v) @@ iteFnv

app_calls == Len(appLog) + app.table.stat.lookup_count

\* bdd_app.rs:57-62, BddApplyTable::insert(f, g, h, res)
app_insert(f, g, h, res) ==
  /\ UNCHANGED notApp
  /\ app_calls < MaxAppOps
  /\ LET ite == Ite_new(f, g, h)[1]
         compl == Ite_new(f, g, h)[2]
     IN \E hash_v \in IteHashes :
          /\ hashes_to(ite, hash_v)
          /\ vec_in_bounds(app.table.tbl, Lru_pos(app.table, hash_v))
          /\ app' = [app EXCEPT !.table =
                       Lru_insert(@, hash_v, ite, stored_result(compl, res))]
          /\ appLog' = Append(appLog, [f |-> f, g |-> g, h |-> h, res |-> res,
                                       pos |-> Lru_pos(app.table, hash_v)])
          /\ appLast' = [op |-> "insert", f |-> f, g |-> g, h |-> h,
                         pos |-> Lru_pos(app.table, hash_v), result |-> None]

\* bdd_app.rs:64-73, BddApplyTable::get(f, g, h)
app_get(f, g, h) ==
  /\ UNCHANGED notApp
  /\ app_calls < MaxAppOps
  /\ LET ite == Ite_new(f, g, h)[1]
         compl == Ite_new(f, g, h)[2]
     IN \E hash_v \in IteHashes :
          /\ hashes_to(ite, hash_v)
          /\ vec_in_bounds(app.table.tbl, Lru_pos(app.table, hash_v))
          /\ app' = [app EXCEPT !.table = Lru_get(@, hash_v, ite)]
          /\ appLast' = [op |-> "get", f |-> f, g |-> g, h |-> h,
                         pos |-> Lru_pos(app.table, hash_v),
                         result |-> returned_result(compl,
                                       Lru_get_result(app.table, hash_v, ite))]
          /\ UNCHANGED appLog

NoAppCall ==
  [op |-> "none", f |-> true_node, g |-> true_node, h |-> true_node,
   pos |-> 0, result |-> None]

AppUnused ==
  app = BddApplyTable_new /\ appLast = NoAppCall /\ appLog = <<>> /\ iteFnv = <<>>

\* ------------------------------------- bdd_table_robinhood.rs: BddTable

(***************************************************************************)
(* The generic unique table of backing_store::robin_hood, which BddTable    *)
(* imports: a probe array of cells (probe offset, 4-bit hash, index into    *)
(* the element buffer), kept here as the function from the occupied         *)
(* buckets to their cells, and an append-only element buffer. Insertion is  *)
(* the Robin-Hood protocol; the table grows eightfold when                  *)
(* (len + 1) > capacity * load_factor.                                      *)
(***************************************************************************)
GROWTH_RATE == 8

Backed_new(sz) ==
  [cap |-> next_power_of_two((sz * (LOAD_FACTOR_DEN + LOAD_FACTOR_NUM)) \div LOAD_FACTOR_DEN),
   elem |-> <<>>,
   tbl |-> <<>>]

RECURSIVE Backed_walk(_, _, _, _, _)
\* the probe walk: searcher is the cell looking for a bucket, found the index
\* already issued for elem_v (None until elem_v is appended)
Backed_walk(t, elem_v, pos, searcher, found) ==
  IF pos \notin DOMAIN t.tbl
  THEN IF is_none(found)
       THEN [t |-> [t EXCEPT !.elem = Append(@, elem_v), !.tbl = (pos :> searcher) @@ @],
             ptr |-> searcher.idx]
       ELSE [t |-> [t EXCEPT !.tbl = (pos :> searcher) @@ @], ptr |-> unwrap(found)]
  ELSE IF /\ is_none(found)
          /\ t.tbl[pos].hash = searcher.hash
          /\ t.elem[t.tbl[pos].idx + 1] = elem_v
  THEN [t |-> t, ptr |-> t.tbl[pos].idx]
  ELSE IF t.tbl[pos].offset < searcher.offset
  THEN Backed_walk(
         [t EXCEPT !.elem = IF is_none(found) THEN Append(@, elem_v) ELSE @,
                   !.tbl = (pos :> searcher) @@ @],
         elem_v, (pos + 1) % t.cap,
         [t.tbl[pos] EXCEPT !.offset = @ + 1],
         IF is_none(found) THEN Some(searcher.idx) ELSE found)
  ELSE Backed_walk(t, elem_v, (pos + 1) % t.cap,
                   [searcher EXCEPT !.offset = @ + 1], found)

RECURSIVE Backed_rehash(_, _, _)
\* growth: the elements from index i on are placed again, the buffer is kept
Backed_rehash(t, i, hf) ==
  IF i >= Len(t.elem) THEN t
  ELSE Backed_rehash(
         Backed_walk(t, t.elem[i + 1], hf[t.elem[i + 1]].lo % t.cap,
                     [offset |-> 0, hash |-> hf[t.elem[i + 1]].hi % Pow2(HASH_BITS), idx |-> i],
                     Some(i)).t,
         i + 1, hf)

Backed_must_grow(t) == (Len(t.elem) + 1) * LOAD_FACTOR_DEN > t.cap * LOAD_FACTOR_NUM

Backed_grow(t, hf) == Backed_rehash([t EXCEPT !.cap = @ * GROWTH_RATE, !.tbl = <<>>], 0, hf)

\* get_or_insert(&elem): hf gives the hash of every pair hashed so far
Backed_get_or_insert(t, elem_v, hf) ==
  LET t0 == IF Backed_must_grow(t) THEN Backed_grow(t, hf) ELSE t
  IN Backed_walk(t0, elem_v, hf[elem_v].lo % t0.cap,
                 [offset |-> 0, hash |-> hf[elem_v].hi % Pow2(HASH_BITS),
                  idx |-> Len(t0.elem)],
                 None)

Backed_in_buffer(t, idx) == 0 <= idx /\ idx < Len(t.elem)
Backed_deref(t, idx) == t.elem[idx + 1]
Backed_num_nodes(t) == Len(t.elem)

\* the shape Bdd of repr::bdd: False, True or Node(var, low, high)
BddFalse == [tag |-> "False"]
BddTrue == [tag |-> "True"]
Bdd_new_node(low, high, var) == [tag |-> "Node", var |-> var, low |-> low, high |-> high]

\* PointerType of a handle, as ptr.ptr_type() gives it
ptr_type(p) == IF ~p.special THEN "PtrNode" ELSE IF p.compl THEN "PtrFalse" ELSE "PtrTrue"

\* bdd_table_robinhood.rs:7
DEFAULT_SUBTABLE_SZ == 16384

\* bdd_table_robinhood.rs:17-27; order_len is order.len()
BddTable_new(order_len) ==
  [subtables |-> [i \in 1..order_len |-> Backed_new(DEFAULT_SUBTABLE_SZ)],
   order |-> order_len]

\* a new_last that extends the order and adds no sub-table
BddTable_new_last_no_subtable(b) ==
  [bt |-> [subtables |-> b.subtables, order |-> b.order + 1], newlbl |-> b.order]

\* bdd_table_robinhood.rs:36-41
BddTable_new_last(b) ==
  [bt |-> [subtables |-> Append(b.subtables, Backed_new(DEFAULT_SUBTABLE_SZ)),
           order |-> b.order + 1],
   newlbl |-> b.order]

\* a handle that forgets the variable of its node
node_handle_no_var(var, idx) == node_ptr(0, idx)

\* bdd_table_robinhood.rs:51, BddPtr::new(VarLabel::new(var), TableIndex::new(ptr.0))
node_handle(var, idx) == node_ptr(var, idx)

\* bdd_table_robinhood.rs:50, subtables[var as usize] panics out of bounds
has_subtable(b, var) == var + 1 \in DOMAIN b.subtables

\* bdd_table_robinhood.rs:43-54
BddTable_get_or_insert(b, bdd, hf) ==
  IF bdd.tag = "False" THEN [bt |-> b, ptr |-> false_node]
  ELSE IF bdd.tag = "True" THEN [bt |-> b, ptr |-> true_node]
  ELSE LET r == Backed_get_or_insert(b.subtables[bdd.var + 1],
                                     ToplessBdd_new(bdd.low, bdd.high), hf)
       IN [bt |-> [b EXCEPT !.subtables[bdd.var + 1] = r.t],
           ptr |-> node_handle(bdd.var, r.ptr)]

\* a dereference that always reads the subtable of variable 0
deref_subtable_first(b, ptr) == 0

\* bdd_table_robinhood.rs:62, the subtable a node handle is read from
deref_subtable(b, ptr) == ptr.var

\* bdd_table_robinhood.rs:56-66; "panic" when an index is out of bounds
BddTable_deref(b, ptr) ==
  IF ptr_type(ptr) = "PtrFalse" THEN BddFalse
  ELSE IF ptr_type(ptr) = "PtrTrue" THEN BddTrue
  ELSE IF ~has_subtable(b, deref_subtable(b, ptr)) THEN [tag |-> "panic"]
  ELSE IF ~Backed_in_buffer(b.subtables[deref_subtable(b, ptr) + 1], ptr.idx)
  THEN [tag |-> "panic"]
  ELSE LET topless == Backed_deref(b.subtables[deref_subtable(b, ptr) + 1], ptr.idx)
       IN Bdd_new_node(topless.low, topless.high, ptr.var)

RECURSIVE sum_num_nodes(_, _)
sum_num_nodes(subtables, i) ==
  IF i > Len(subtables) THEN 0
  ELSE Backed_num_nodes(subtables[i]) + sum_num_nodes(subtables, i + 1)

\* bdd_table_robinhood.rs:68-74
BddTable_num_nodes(b) == sum_num_nodes(b.subtables, 1)

\* the children the nodes are built from, the lengths of the initial order,
\* the number of variables that nodes are made on and the largest order
\* new_last extends to
Children == {true_node, false_node}
OrderLens == {1, 2}
OrderLimit == SetMax(OrderLens)
NewLastLimit == OrderLimit + 1

(***************************************************************************)
(* The XxHash of a (low, high) pair is a function of the bytes of the two   *)
(* handles, which this module does not fix: each pair gets its value (top   *)
(* bits hi, bucket bits lo) the first time it is hashed and keeps it.       *)
(***************************************************************************)
PairHashes == {[hi |-> 1, lo |-> 0], [hi |-> 2, lo |-> 0], [hi |-> 2, lo |-> 1]}

\* bdd_table_robinhood.rs:43-54, BddTable::get_or_insert(bdd)
bt_get_or_insert(bdd) ==
  /\ UNCHANGED notBt
  /\ Len(btLog) < MaxBddOps
  /\ bdd.tag = "Node" => has_subtable(bt, bdd.var)
  /\ IF bdd.tag = "Node"
     THEN \E hash_v \in PairHashes :
            LET e == ToplessBdd_new(bdd.low, bdd.high)
            IN /\ e \in DOMAIN pairHash => hash_v = pairHash[e]
               /\ pairHash' = (e :> hash_v) @@ pairHash
     ELSE UNCHANGED pairHash
  /\ bt' = BddTable_get_or_insert(bt, bdd, pairHash').bt
  /\ btLog' = Append(btLog, [bdd |-> bdd,
                             ptr |-> BddTable_get_or_insert(bt, bdd, pairHash').ptr])
  /\ UNCHANGED btNew

\* bdd_table_robinhood.rs:36-41, BddTable::new_last(), called while the order
\* has fewer than limit variables
bt_new_last(limit) ==
  /\ UNCHANGED notBt
  /\ bt.order < limit
  /\ bt' = BddTable_new_last(bt).bt
  /\ btNew' = IF btNew.kept
               THEN [btNew EXCEPT !.labels = Append(@, BddTable_new_last(bt).newlbl)]
               ELSE btNew
  /\ UNCHANGED <<btLog, pairHash>>

\* a table made with order_len variables on which new_last was not called
NoNewLast(order_len) == [kept |-> TRUE, n |-> order_len, labels |-> <<>>]

\* the history of new_last is not kept
NoHistory == [kept |-> FALSE, n |-> 0, labels |-> <<>>]

BtUnused ==
  bt = BddTable_new(0) /\ btLog = <<>> /\ btNew = NoHistory /\ pairHash = <<>>

RHUnused == store = BackedRobinHoodTable_new(1, TABLE_VAR, TABLE_ID) /\ frame = IdleFrame

\* --------------------------------------------- sdd_table.rs: SddTable

(***************************************************************************)
(* The types sdd_table.rs imports: the binary tree of util::btree (a leaf   *)
(* carries an ordered list of variables) with its in-order iterator, the    *)
(* handle of repr::sdd (vtree index, element index, complement bit), and    *)
(* the nested BddManager, kept as the variable order it was built with.     *)
(***************************************************************************)
Leaf(o) == [tag |-> "Leaf", vars |-> o]
Node(l, r) == [tag |-> "Node", l |-> l, r |-> r]

RECURSIVE in_order_iter(_)
in_order_iter(v) ==
  IF v.tag = "Leaf" THEN <<v>>
  ELSE in_order_iter(v.l) \o <<v>> \o in_order_iter(v.r)

SddPtr_new_node(idx, vtree) == [vtree |-> vtree, idx |-> idx, compl |-> FALSE]
VarOrder_new(order) == order
BddManager_new(order) == [order |-> order]

\* HashMap::insert: a later insert of the same key replaces the value
hashmap_insert(m, k, v) == [x \in DOMAIN m \cup {k} |-> IF x = k THEN v ELSE m[x]]

\* sdd_table.rs:11
DEFAULT_RH_SZ == 32768

\* sdd_table.rs:15-24, the two variants of SubTable
BddSubTable(man, conv) == [kind |-> "BddSubTable", man |-> man, conv |-> conv]
SddSubTable(tbl) == [kind |-> "SddSubTable", tbl |-> tbl]

\* compact labels that start at one
bdd_label_one_based(var_idx) == var_idx + 1

\* sdd_table.rs:48, VarLabel::new(var_idx as u64)
bdd_label(var_idx) == var_idx

RECURSIVE leaf_fill(_, _, _)
\* sdd_table.rs:46-51, the loop over the variables of a leaf from var_idx on
leaf_fill(o, var_idx, acc) ==
  IF var_idx >= Len(o) THEN acc
  ELSE leaf_fill(o, var_idx + 1,
         [sdd_to_bdd |-> hashmap_insert(acc.sdd_to_bdd, o[var_idx + 1], bdd_label(var_idx)),
          m |-> hashmap_insert(acc.m, bdd_label(var_idx), o[var_idx + 1]),
          new_order |-> Append(acc.new_order, bdd_label(var_idx))])

RECURSIVE SddTable_fill(_, _, _)
\* sdd_table.rs:41-62, the loop over the in-order nodes from the i-th on
SddTable_fill(nodes, i, t) ==
  IF i > Len(nodes) THEN t
  ELSE IF nodes[i].tag = "Leaf"
  THEN LET f == leaf_fill(nodes[i].vars, 0,
                          [sdd_to_bdd |-> t.sdd_to_bdd, m |-> <<>>, new_order |-> <<>>])
       IN SddTable_fill(nodes, i + 1,
            [sdd_to_bdd |-> f.sdd_to_bdd,
             tables |-> Append(t.tables,
                               BddSubTable(BddManager_new(VarOrder_new(f.new_order)), f.m))])
  ELSE SddTable_fill(nodes, i + 1,
         [t EXCEPT !.tables = Append(@, SddSubTable(Backed_new(DEFAULT_RH_SZ)))])

\* sdd_table.rs:34-64
SddTable_new(vtree) ==
  SddTable_fill(in_order_iter(vtree), 1, [sdd_to_bdd |-> <<>>, tables |-> <<>>])

\* what a call does: it returns a value, or it panics on an index out of
\* bounds, on the wrong kind of sub-table, or on unwrapping None
Ok(v) == [outcome |-> "ok", value |-> Some(v)]
IndexPanic == [outcome |-> "index", value |-> None]
Mismatch == [outcome |-> "mismatch", value |-> None]
UnwrapPanic == [outcome |-> "unwrap", value |-> None]

\* self.tables[i] is in bounds
in_tables(s, i) == i + 1 \in DOMAIN s.tables

\* sdd_table.rs:66-71
SddTable_is_sdd(s, ptr) ==
  IF ~in_tables(s, ptr.vtree) THEN IndexPanic
  ELSE Ok(s.tables[ptr.vtree + 1].kind = "SddSubTable")

\* an is_bdd that answers true at every position
SddTable_is_bdd_always(s, ptr) ==
  IF ~in_tables(s, ptr.vtree) THEN IndexPanic ELSE Ok(TRUE)

\* sdd_table.rs:81-86
SddTable_is_bdd(s, ptr) ==
  IF ~in_tables(s, ptr.vtree) THEN IndexPanic
  ELSE Ok(s.tables[ptr.vtree + 1].kind = "BddSubTable")

\* sdd_table.rs:74-79
SddTable_sdd_to_bdd_label(s, label) ==
  IF label \in DOMAIN s.sdd_to_bdd THEN Ok(s.sdd_to_bdd[label]) ELSE UnwrapPanic

\* a handle with its two fields exchanged
sdd_handle_swapped(idx, vnode) == SddPtr_new_node(vnode % Pow2(16), idx)

\* sdd_table.rs:93, SddPtr::new_node(ptr.0 as usize, vnode as u16)
sdd_handle(idx, vnode) == SddPtr_new_node(idx, vnode % Pow2(16))

\* a wrong position answered with a null handle instead of a failure
invalid_vnode_null_handle(vnode) == Ok(SddPtr_new_node(0, vnode))

\* sdd_table.rs:95, panic!("invalid vnode: inserting SDD into BDD")
invalid_vnode(vnode) == Mismatch

\* sdd_table.rs:89-97; hf gives the hash of every or-list hashed so far
SddTable_get_or_insert_sdd(s, nodes, vnode, hf) ==
  IF ~in_tables(s, vnode) THEN [sdd |-> s, ret |-> IndexPanic]
  ELSE IF s.tables[vnode + 1].kind = "SddSubTable"
  THEN LET r == Backed_get_or_insert(s.tables[vnode + 1].tbl, nodes, hf)
       IN [sdd |-> [s EXCEPT !.tables[vnode + 1].tbl = r.t],
           ret |-> Ok(sdd_handle(r.ptr, vnode))]
  ELSE [sdd |-> s, ret |-> invalid_vnode(vnode)]

\* sdd_table.rs:100-105
SddTable_sdd_get_or(s, ptr) ==
  IF ~in_tables(s, ptr.vtree) THEN IndexPanic
  ELSE IF s.tables[ptr.vtree + 1].kind = "SddSubTable"
  THEN IF Backed_in_buffer(s.tables[ptr.vtree + 1].tbl, ptr.idx)
       THEN Ok(Backed_deref(s.tables[ptr.vtree + 1].tbl, ptr.idx))
       ELSE IndexPanic
  ELSE Mismatch

\* sdd_table.rs:109-114 and 125-133, bdd_man and bdd_man_mut
SddTable_bdd_man(s, vtree_idx) ==
  IF ~in_tables(s, vtree_idx) THEN IndexPanic
  ELSE IF s.tables[vtree_idx + 1].kind = "BddSubTable"
  THEN Ok(s.tables[vtree_idx + 1].man)
  ELSE Mismatch

\* sdd_table.rs:116-121
SddTable_bdd_conv(s, node) ==
  IF ~in_tables(s, node) THEN IndexPanic
  ELSE IF s.tables[node + 1].kind = "BddSubTable"
  THEN Ok(s.tables[node + 1].conv)
  ELSE Mismatch

\* the vtrees the table is built from; the last one repeats a variable
VTrees ==
  {Leaf(<<0>>),
   Node(Leaf(<<0, 1>>), Leaf(<<2>>)),
   Node(Node(Leaf(<<1>>), Leaf(<<0>>)), Leaf(<<3, 2>>)),
   Node(Leaf(<<0, 1>>), Leaf(<<1>>))}

\* the positions calls are made at: those of the largest vtree and one more
Positions == 0..SetMax({Len(in_order_iter(v)) : v \in VTrees})

\* the or-lists that are interned: lists of (prime, sub) pairs
OrLists ==
  LET p == SddPtr_new_node(0, 0)
      q == SddPtr_new_node(1, 2)
  IN {<< <<p, q>> >>, << <<p, q>>, <<q, p>> >>, << <<q, p>>, <<p, q>> >>}

\* the handles the queries are made with
QueryPtrs ==
  {SddPtr_new_node(0, v) : v \in Positions} \cup
  {sddLog[i].ptr : i \in 1..Len(sddLog)}

SddLabels == 0..3

NoSddCall == [op |-> "none", pos |-> 0, outcome |-> "ok", value |-> None]

sdd_call(op, pos, ret) ==
  [op |-> op, pos |-> pos, outcome |-> ret.outcome, value |-> ret.value]

\* a call that reads the table and changes nothing
sdd_query(op, pos, ret) ==
  /\ UNCHANGED notSdd
  /\ sddLast' = sdd_call(op, pos, ret)
  /\ UNCHANGED <<sdd, sddTree, sddLog, listHash>>

\* sdd_table.rs:89-97, SddTable::get_or_insert_sdd(sdd, vnode)
sdd_get_or_insert_sdd(nodes, vnode) ==
  /\ UNCHANGED notSdd
  /\ Len(sddLog) < MaxSddOps
  /\ IF in_tables(sdd, vnode) /\ sdd.tables[vnode + 1].kind = "SddSubTable"
     THEN \E hash_v \in PairHashes :
            /\ nodes \in DOMAIN listHash => hash_v = listHash[nodes]
            /\ listHash' = (nodes :> hash_v) @@ listHash
     ELSE UNCHANGED listHash
  /\ LET r == SddTable_get_or_insert_sdd(sdd, nodes, vnode, listHash')
     IN /\ sdd' = r.sdd
        /\ sddLast' = sdd_call("get_or_insert_sdd", vnode, r.ret)
        /\ sddLog' = IF r.ret.outcome = "ok"
                     THEN Append(sddLog, [nodes |-> nodes, vnode |-> vnode,
                                          ptr |-> unwrap(r.ret.value)])
                     ELSE sddLog
  /\ UNCHANGED sddTree

\* sdd_table.rs:66-71, SddTable::is_sdd(ptr)
sdd_is_sdd(ptr) == sdd_query("is_sdd", ptr.vtree, SddTable_is_sdd(sdd, ptr))

\* sdd_table.rs:81-86, SddTable::is_bdd(ptr)
sdd_is_bdd(ptr) == sdd_query("is_bdd", ptr.vtree, SddTable_is_bdd(sdd, ptr))

\* sdd_table.rs:100-105, SddTable::sdd_get_or(ptr)
sdd_sdd_get_or(ptr) == sdd_query("sdd_get_or", ptr.vtree, SddTable_sdd_get_or(sdd, ptr))

\* sdd_table.rs:109-114, SddTable::bdd_man(vtree_idx)
sdd_bdd_man(vtree_idx) == sdd_query("bdd_man", vtree_idx, SddTable_bdd_man(sdd, vtree_idx))

\* sdd_table.rs:125-133, SddTable::bdd_man_mut(node): the borrow it returns
sdd_bdd_man_mut(node) == sdd_query("bdd_man_mut", node, SddTable_bdd_man(sdd, node))

\* sdd_table.rs:116-121, SddTable::bdd_conv(node)
sdd_bdd_conv(node) == sdd_query("bdd_conv", node, SddTable_bdd_conv(sdd, node))

\* sdd_table.rs:74-79, SddTable::sdd_to_bdd_label(label)
sdd_sdd_to_bdd_label(label) ==
  sdd_query("sdd_to_bdd_label", label, SddTable_sdd_to_bdd_label(sdd, label))

SddUnused ==
  /\ sdd = [sdd_to_bdd |-> <<>>, tables |-> <<>>]
  /\ sddTree = Leaf(<<>>)
  /\ sddLast = NoSddCall
  /\ sddLog = <<>>
  /\ listHash = <<>>

\* ------------------------------------------------ apply_cache.rs: ApplyTable

\* apply_cache.rs:9, LOAD_FACTOR = 0.7 as the ratio 7 / 10
AC_LOAD_FACTOR_NUM == 7
AC_LOAD_FACTOR_DEN == 10
\* apply_cache.rs:10
AC_INITIAL_CAPACITY == 16392
\* apply_cache.rs:11
AC_GROWTH_RATE == 8

\* the Op of an ApplyOp (apply_cache.rs:14, matched at :200-201)
BddAnd == "BddAnd"
BddOr == "BddOr"

\* apply_cache.rs:27-35; the occupied flag of a cell is the cell being Some in
\* the vector, and a zeroed cell (occupied = false) is None
ApplyElement_new(a, b, res) == [a |-> a, b |-> b, result |-> res, offset |-> 0]

\* apply_cache.rs:38-40
elem_eq(x, y) == x.a = y.a /\ x.b = y.b

\* apply_cache.rs:81-89; (minimum_size as f64 * 1.7) as usize is the floor of
\* minimum_size * 17 / 10 (the product is not an integer for the sizes used)
ApplySubTable_new(minimum_size) ==
  LET tbl_sz == next_power_of_two(
                  (minimum_size * (AC_LOAD_FACTOR_DEN + AC_LOAD_FACTOR_NUM)) \div AC_LOAD_FACTOR_DEN)
  IN [tbl |-> zero_vec(tbl_sz), len |-> 0, cap |-> tbl_sz]

\* a growth test on len, not on len + 1: the table grows one insertion late
ApplySubTable_must_grow_late(t) == t.len * AC_LOAD_FACTOR_DEN > t.cap * AC_LOAD_FACTOR_NUM

\* apply_cache.rs:92, (len + 1) as f64 > cap as f64 * LOAD_FACTOR; cap is a
\* power of two, so cap * 0.7 is never an integer
ApplySubTable_must_grow(t) == (t.len + 1) * AC_LOAD_FACTOR_DEN > t.cap * AC_LOAD_FACTOR_NUM

RECURSIVE ApplySubTable_probe(_, _, _)
\* apply_cache.rs:99-122, the loop of insert from position pos; after a swap
\* the displaced element walks on with the offset it had (:108-112)
ApplySubTable_probe(t, pos, searcher) ==
  LET cell == vec_get(t.tbl, pos)
  IN IF is_none(cell)
     THEN [t EXCEPT !.tbl = vec_set_some(@, pos, searcher), !.len = @ + 1]
     ELSE IF elem_eq(unwrap(cell), searcher) THEN t
     ELSE IF unwrap(cell).offset < searcher.offset
          THEN ApplySubTable_probe([t EXCEPT !.tbl = vec_set_some(@, pos, searcher)],
                                   (pos + 1) % t.cap, unwrap(cell))
          ELSE ApplySubTable_probe(t, (pos + 1) % t.cap,
                                   [searcher EXCEPT !.offset = @ + 1])

RECURSIVE ApplySubTable_insert(_, _, _, _, _)
RECURSIVE ApplySubTable_reinsert(_, _, _, _)
\* apply_cache.rs:155-157, the loop of grow over self.iter() (:49-70): the
\* occupied cells of old from index i on, in index order
ApplySubTable_reinsert(old, i, new_tbl, hf) ==
  IF i >= old.tbl.len THEN new_tbl
  ELSE LET cell == vec_get(old.tbl, i)
       IN ApplySubTable_reinsert(
            old, i + 1,
            IF is_none(cell) THEN new_tbl
            ELSE ApplySubTable_insert(new_tbl, unwrap(cell).a, unwrap(cell).b,
                                      unwrap(cell).result, hf),
            hf)

\* a grow that starts from an empty table and copies nothing
ApplySubTable_grow_forgets(t, hf) ==
  [tbl |-> zero_vec(t.cap * AC_GROWTH_RATE), len |-> 0, cap |-> t.cap * AC_GROWTH_RATE]

\* apply_cache.rs:146-163
ApplySubTable_grow(t, hf) ==
  LET new_sz == t.cap * AC_GROWTH_RATE
  IN ApplySubTable_reinsert(t, 0, [tbl |-> zero_vec(new_sz), len |-> 0, cap |-> new_sz], hf)

\* apply_cache.rs:91-123; hf[<<a, b>>] is hash_pair(a, b)
ApplySubTable_insert(t, a, b, result, hf) ==
  LET grown == IF ApplySubTable_must_grow(t) THEN ApplySubTable_grow(t, hf) ELSE t
  IN ApplySubTable_probe(grown, hf[<<a, b>>] % grown.cap, ApplyElement_new(a, b, result))

RECURSIVE ApplySubTable_get_from(_, _, _, _)
\* apply_cache.rs:132-142, the loop of get from position pos
ApplySubTable_get_from(t, pos, a, b) ==
  LET cell == vec_get(t.tbl, pos)
  IN IF is_none(cell) THEN None
     ELSE IF unwrap(cell).a = a /\ unwrap(cell).b = b THEN Some(unwrap(cell).result)
     ELSE ApplySubTable_get_from(t, (pos + 1) % t.cap, a, b)

\* apply_cache.rs:129-143
ApplySubTable_get(t, a, b, hf) == ApplySubTable_get_from(t, hf[<<a, b>>] % t.cap, a, b)

RECURSIVE sum_offset(_, _)
\* apply_cache.rs:166-169, the sum of i.offset over self.iter(): the occupied
\* cells at the positions in cells, in index order
sum_offset(t, cells) ==
  IF cells = {} THEN 0
  ELSE LET pos == CHOOSE p \in cells : \A q \in cells : p <= q
       IN unwrap(vec_get(t.tbl, pos)).offset + sum_offset(t, cells \ {pos})

\* apply_cache.rs:165-171, offs as f64 / len as f64 as the ratio num / den
ApplySubTable_avg_offset(t) == [num |-> sum_offset(t, DOMAIN t.tbl.at), den |-> t.len]

\* apply_cache.rs:181-191 with every sub-table made by SubTable::new(minimum_size)
ApplyTable_with_capacity(num_vars, minimum_size) ==
  [or_tables |-> [i \in 1..num_vars |-> ApplySubTable_new(minimum_size)],
   and_tables |-> [i \in 1..num_vars |-> ApplySubTable_new(minimum_size)]]

\* apply_cache.rs:181-191
ApplyTable_new(num_vars) == ApplyTable_with_capacity(num_vars, AC_INITIAL_CAPACITY)

\* every operation is kept in the sub-table of variable 0
ApplyTable_tbl_first(a) == 0

\* apply_cache.rs:199 and :208, the sub-table index a.var() as usize
ApplyTable_tbl(a) == a.var

\* apply_cache.rs:200-201, self.and_tables[tbl] / self.or_tables[tbl] is in bounds
ApplyTable_in_bounds(t, a) == ApplyTable_tbl(a) < Len(t.and_tables)

\* apply_cache.rs:197-204
ApplyTable_insert(t, op, a, b, res, hf) ==
  LET tbl == ApplyTable_tbl(a) + 1
  IN IF op = BddAnd
     THEN [t EXCEPT !.and_tables[tbl] = ApplySubTable_insert(@, a, b, res, hf)]
     ELSE [t EXCEPT !.or_tables[tbl] = ApplySubTable_insert(@, a, b, res, hf)]

\* apply_cache.rs:206-213
ApplyTable_get(t, op, a, b, hf) ==
  LET tbl == ApplyTable_tbl(a) + 1
  IN IF op = BddAnd
     THEN ApplySubTable_get(t.and_tables[tbl], a, b, hf)
     ELSE ApplySubTable_get(t.or_tables[tbl], a, b, hf)

\* ApplyTable::new(num_vars) is called with num_vars in NumVars
NumVars == {1, 2}
\* the minimum size of the sub-tables: INITIAL_CAPACITY, and sizes small enough
\* for a sub-table to grow within a few insertions (size 1 grows on the first
\* insertion, size 2 on the third, INITIAL_CAPACITY on the 22938th)
MinimumSizes == {1, 2, AC_INITIAL_CAPACITY}
\* the operands of the operations: two nodes on variable 0 and one on variable 1
ApplyPtrs == {node_ptr(0, 0), node_ptr(0, 1), node_ptr(1, 0)}
\* the operations: pairs of different operands
ApplyPairs == {ab \in ApplyPtrs \X ApplyPtrs : ab[1] # ab[2]}
\* ApplyOp(op, a, b): the And of every pair, and the Or of one of them
ApplyOps ==
  {[op |-> BddAnd, a |-> ab[1], b |-> ab[2]] : ab \in ApplyPairs} \cup
  {[op |-> BddOr, a |-> node_ptr(0, 0), b |-> node_ptr(0, 1)]}
ApplyResults == {node_ptr(0, 0), node_ptr(1, 0)}
(***************************************************************************)
(* hash_pair (apply_cache.rs:73-78) is XxHash seeded with 1123859 over      *)
(* a.raw() and b.raw(); the bits of raw() belong to the bdd module, so the  *)
(* table is given one of these functions when it is made. Their values 3    *)
(* and 4 collide in a table of 4 cells and are neighbours in a larger one.  *)
(***************************************************************************)
HashPairs ==
  { [ab \in ApplyPairs |-> 3],
    [ab \in ApplyPairs |-> 3 + ab[2].var],
    [ab \in ApplyPairs |-> 3 + ab[2].idx] }

NoApplyCall == [op |-> "none", result |-> None]

\* apply_cache.rs:197-204, ApplyTable::insert(ApplyOp(op, a, b), res);
\* and_tables[tbl] panics out of bounds
at_insert_within(limit, op, a, b, res) ==
  /\ UNCHANGED notAt
  /\ atLast.op # "panic"
  /\ Cardinality(atLog) < limit
  /\ IF ~ApplyTable_in_bounds(at, a)
     THEN /\ atLast' = [op |-> "panic", result |-> None]
          /\ UNCHANGED <<at, atLog, acHash>>
     ELSE /\ at' = ApplyTable_insert(at, op, a, b, res, acHash)
          /\ atLog' = atLog \cup {[op |-> op, a |-> a, b |-> b, result |-> res]}
          /\ atLast' = [op |-> "insert", result |-> None]
          /\ UNCHANGED acHash

\* insert while fewer than MaxAtOps different operations were inserted
at_insert(op, a, b, res) == at_insert_within(MaxAtOps, op, a, b, res)

\* apply_cache.rs:206-213, ApplyTable::get(ApplyOp(op, a, b))
at_get(op, a, b) ==
  /\ UNCHANGED notAt
  /\ atLast.op # "panic"
  /\ IF ~ApplyTable_in_bounds(at, a)
     THEN /\ atLast' = [op |-> "panic", result |-> None]
          /\ UNCHANGED <<at, atLog, acHash>>
     ELSE /\ atLast' = [op |-> "get", result |-> ApplyTable_get(at, op, a, b, acHash)]
          /\ UNCHANGED <<at, atLog, acHash>>

AtUnused ==
  at = ApplyTable_new(0) /\ atLog = {} /\ atLast = NoApplyCall /\ acHash = <<>>

InitRH ==
  /\ ElemUnused
  /\ \E sz \in 1..MaxSz : store = BackedRobinHoodTable_new(sz, TABLE_VAR, TABLE_ID)
  /\ frame = IdleFrame
  /\ LruUnused
  /\ AppUnused
  /\ BtUnused
  /\ SddUnused
  /\ AtUnused

NextRH ==
  \/ \E i \in 0..MaxLowIdx, j \in HighIdxs : get_or_insert_enter(mk_ptr(i), mk_ptr(j))
  \/ get_or_insert_loop

SpecRH == InitRH /\ [][NextRH]_vars

InitElem ==
  /\ elemNew = NoElemCall
  /\ RHUnused
  /\ LruUnused
  /\ AppUnused
  /\ BtUnused
  /\ SddUnused
  /\ AtUnused

NextElem == \E idx \in ElemIdxs, hash_v \in ElemHashes : element_new(idx, hash_v)

SpecElem == InitElem /\ [][NextElem]_vars

\* the loop of get_or_insert runs on: nothing suspends it (spec section 5)
FairSpecRH == SpecRH /\ WF_vars(get_or_insert_loop)

InitLru ==
  /\ ElemUnused
  /\ \E p \in 0..MaxPow : lru = Lru_new(p)
  /\ lruLast = NoCall
  /\ lruLog = <<>>
  /\ lruGets = NoGets
  /\ store = BackedRobinHoodTable_new(1, TABLE_VAR, TABLE_ID)
  /\ frame = IdleFrame
  /\ AppUnused
  /\ BtUnused
  /\ SddUnused
  /\ AtUnused

\* Lru::grow (lru.rs:142-164) is private and has no caller: no action applies it
NextLru ==
  \/ \E key \in 0..MaxKey, val \in 0..MaxVal : lru_insert(key, val)
  \/ \E key \in 0..MaxKey : lru_get(key)

SpecLru == InitLru /\ [][NextLru]_vars

InitApp ==
  /\ ElemUnused
  /\ app = BddApplyTable_new
  /\ appLast = NoAppCall
  /\ appLog = <<>>
  /\ iteFnv = <<>>
  /\ store = BackedRobinHoodTable_new(1, TABLE_VAR, TABLE_ID)
  /\ frame = IdleFrame
  /\ LruUnused
  /\ BtUnused
  /\ SddUnused
  /\ AtUnused

NextApp ==
  \/ \E f \in Handles, g \in Handles, h \in Handles, res \in Handles : app_insert(f, g, h, res)
  \/ \E f \in Handles, g \in Handles, h \in Handles : app_get(f, g, h)

SpecApp == InitApp /\ [][NextApp]_vars

Bdds ==
  {BddFalse, BddTrue} \cup
  {Bdd_new_node(low, high, var) : low \in Children, high \in Children, var \in 0..(OrderLimit - 1)}

InitBddTable ==
  /\ ElemUnused
  /\ \E n \in OrderLens : bt = BddTable_new(n)
  /\ btLog = <<>>
  /\ btNew = NoHistory
  /\ pairHash = <<>>
  /\ store = BackedRobinHoodTable_new(1, TABLE_VAR, TABLE_ID)
  /\ frame = IdleFrame
  /\ LruUnused
  /\ AppUnused
  /\ SddUnused
  /\ AtUnused

NextBddTable ==
  \/ \E bdd \in Bdds : bt_get_or_insert(bdd)
  \/ bt_new_last(OrderLimit)

SpecBddTable == InitBddTable /\ [][NextBddTable]_vars

\* one node on each variable of the extended order
NewLastBdds == {Bdd_new_node(false_node, true_node, var) : var \in 0..(NewLastLimit - 1)}

InitNewLast ==
  /\ ElemUnused
  /\ \E n \in OrderLens : bt = BddTable_new(n) /\ btNew = NoNewLast(n)
  /\ btLog = <<>>
  /\ pairHash = <<>>
  /\ RHUnused
  /\ LruUnused
  /\ AppUnused
  /\ SddUnused
  /\ AtUnused

\* the order is extended further and nodes are made on the new variables
NextNewLast ==
  \/ \E bdd \in NewLastBdds : bt_get_or_insert(bdd)
  \/ bt_new_last(NewLastLimit)

SpecNewLast == InitNewLast /\ [][NextNewLast]_vars

InitSdd ==
  /\ ElemUnused
  /\ \E vtree \in VTrees : sdd = SddTable_new(vtree) /\ sddTree = vtree
  /\ sddLast = NoSddCall
  /\ sddLog = <<>>
  /\ listHash = <<>>
  /\ RHUnused
  /\ LruUnused
  /\ AppUnused
  /\ BtUnused
  /\ AtUnused

NextSdd ==
  \/ \E nodes \in OrLists, vnode \in Positions : sdd_get_or_insert_sdd(nodes, vnode)
  \/ \E ptr \in QueryPtrs : sdd_is_sdd(ptr)
  \/ \E ptr \in QueryPtrs : sdd_is_bdd(ptr)
  \/ \E ptr \in QueryPtrs : sdd_sdd_get_or(ptr)
  \/ \E vtree_idx \in Positions : sdd_bdd_man(vtree_idx)
  \/ \E node \in Positions : sdd_bdd_man_mut(node)
  \/ \E node \in Positions : sdd_bdd_conv(node)
  \/ \E label \in SddLabels : sdd_sdd_to_bdd_label(label)

SpecSdd == InitSdd /\ [][NextSdd]_vars

InitAt ==
  /\ ElemUnused
  /\ \E num_vars \in NumVars, minimum_size \in MinimumSizes :
       at = ApplyTable_with_capacity(num_vars, minimum_size)
  /\ atLog = {}
  /\ atLast = NoApplyCall
  /\ acHash \in HashPairs
  /\ RHUnused
  /\ LruUnused
  /\ AppUnused
  /\ BtUnused
  /\ SddUnused

NextAt ==
  \/ \E o \in ApplyOps, res \in ApplyResults : at_insert(o.op, o.a, o.b, res)
  \/ \E o \in ApplyOps : at_get(o.op, o.a, o.b)

SpecAt == InitAt /\ [][NextAt]_vars

(***************************************************************************)
(* A chain of probes in one sub-table: five operations on variable 0,       *)
(* three of them hashed to one cell and two to the next cell, in the table  *)
(* that ApplyTable::new(1) makes (32768 cells at each operator, no growth   *)
(* within the run).                                                         *)
(***************************************************************************)
ChainKeys ==
  { <<node_ptr(0, 0), node_ptr(0, 1)>>, <<node_ptr(0, 1), node_ptr(0, 0)>>,
    <<node_ptr(0, 0), node_ptr(0, 2)>>,
    <<node_ptr(0, 0), node_ptr(1, 0)>>, <<node_ptr(0, 1), node_ptr(1, 0)>> }
ChainHash == [ab \in ChainKeys |-> 3 + ab[2].var]
\* every operation of the chain can be inserted, and one of them once more
ChainLimit == Cardinality(ChainKeys) + 1

InitAtChain ==
  /\ ElemUnused
  /\ at = ApplyTable_new(1)
  /\ atLog = {}
  /\ atLast = NoApplyCall
  /\ acHash = ChainHash
  /\ RHUnused
  /\ LruUnused
  /\ AppUnused
  /\ BtUnused
  /\ SddUnused

NextAtChain ==
  \/ \E ab \in ChainKeys, res \in ApplyResults :
       at_insert_within(ChainLimit, BddAnd, ab[1], ab[2], res)
  \/ \E ab \in ChainKeys : at_get(BddAnd, ab[1], ab[2])

SpecAtChain == InitAtChain /\ [][NextAtChain]_vars


\* ------------------------------------------------ claims on the unique table

\* the last call of get_or_insert has returned a handle
Returned == frame.pc = "idle" /\ ~is_none(frame.ret)

\* C1: no two distinct indices of the element buffer hold the same
\* (low, high) pair, after any sequence of get_or_insert calls.
C1_Canonicity ==
  \A i, j \in 1..Len(store.elem) : store.elem[i] = store.elem[j] => i = j

\* C4: the element buffer is append-only: every step keeps the entries
\* stored so far (deref of every issued index is unchanged), a call appends
\* at most one entry, and a returned handle dereferences to the pair asked for.
C4_HandleStability ==
  [][ /\ \A i \in 1..Len(store.elem) :
             /\ i <= Len(store'.elem)
             /\ deref(store', issued_ptr(store, i - 1)) = deref(store, issued_ptr(store, i - 1))
      /\ Len(store'.elem) <= frame'.entry_len + 1
      /\ (frame'.pc = "idle" /\ ~is_none(frame'.ret))
            => deref(store', unwrap(frame'.ret)) = ToplessBdd_new(frame'.low, frame'.high)
    ]_vars

\* a call that appended at a swap has returned while older handles exist
C4_Witness ==
  /\ Returned
  /\ ~is_none(frame.found)
  /\ Len(store.elem) >= 3
  /\ unwrap(frame.ret).idx = Len(store.elem) - 1

\* C5: get_or_insert never fails and never hangs for capacity reasons: the
\* capacity assertion never fires and every call that entered the loop returns.
C5_NeverFailsOrHangs ==
  /\ [](frame.pc # "panic")
  /\ (frame.pc = "loop") ~> (frame.pc = "idle")

\* C5, the two parts on their own
C5_NoCapacityPanic == frame.pc # "panic"
C5_EveryCallReturns == (frame.pc = "loop") ~> (frame.pc = "idle")

\* C6: right after v = get_or_insert(low, high), find(low, high) is Some(v)
\* and both handles dereference to (low, high).
C6_FindAfterInsert ==
  Returned =>
    LET v == unwrap(frame.ret)
        a == find(store, frame.low, frame.high)
    IN /\ a = Some(v)
       /\ deref(store, unwrap(a)) = deref(store, v)
       /\ deref(store, v) = ToplessBdd_new(frame.low, frame.high)

\* a call returned the handle of a pair it placed by a Robin-Hood swap
C6_Witness ==
  /\ Returned
  /\ ~is_none(frame.found)
  /\ find(store, frame.low, frame.high) = frame.ret
  /\ Len(store.elem) >= 3


\* ---------------------------------------------------- claims on the caches

\* the inserts, by their place in the log, that wrote the slot pos of the Lru
LruSlotWrites(pos) ==
  {i \in 1..Len(lruLog) : Lru_pos(lru, FnvU64[lruLog[i].key]) = pos}

\* C2: whenever get(k) returns Some(v), the slot k maps to was written, and the
\* most recent insert that wrote it was insert(k, v): never a value inserted
\* under another key.
C2_Soundness ==
  (lruLast.op = "get" /\ ~is_none(lruLast.result)) =>
    LET w == LruSlotWrites(lruLast.pos)
    IN /\ w # {}
       /\ lruLog[SetMax(w)].key = lruLast.key
       /\ lruLog[SetMax(w)].val = unwrap(lruLast.result)

\* a hit on a slot that an insert under another key had written before
C2_Witness ==
  /\ lruLast.op = "get"
  /\ ~is_none(lruLast.result)
  /\ \E i \in LruSlotWrites(lruLast.pos) : lruLog[i].key # lruLast.key

\* C9: the slot array has exactly 2^p entries from construction on, through
\* every insert and get, and every insert and get addresses a slot below 2^p
\* (no call indexes out of bounds).
C9_NeverGrows ==
  /\ [](/\ lru.tbl.len = Pow2(lru.cap)
        /\ lruLast.op # "panic"
        /\ lruLast.op \in {"insert", "get"} => lruLast.pos \in 0..(Pow2(lru.cap) - 1))
  /\ [][lru'.cap = lru.cap /\ lru'.tbl.len = lru.tbl.len]_vars

\* an insert whose hash exceeds the capacity lands on a slot already in use
C9_Witness ==
  /\ lruLast.op = "insert"
  /\ lruLast.hash_v >= Pow2(lru.cap)
  /\ lru.cap = MaxPow
  /\ lru.stat.conflict_count > 0

\* the inserts, by their place in the log, that wrote the slot pos of the
\* apply table
AppSlotWrites(pos) == {i \in 1..Len(appLog) : appLog[i].pos = pos}

\* C3: after insert(f, g, h, r) with no later insert into the same slot,
\* get(f, g, h) returns exactly Some(r).
C3_RoundTrip ==
  (/\ appLast.op = "get"
   /\ AppSlotWrites(appLast.pos) # {}
   /\ LET e == appLog[SetMax(AppSlotWrites(appLast.pos))]
      IN e.f = appLast.f /\ e.g = appLast.g /\ e.h = appLast.h)
  => appLast.result = Some(appLog[SetMax(AppSlotWrites(appLast.pos))].res)

\* a get of the triple just inserted, with a complemented result stored
C3_Witness ==
  /\ appLast.op = "get"
  /\ Len(appLog) = 1
  /\ appLog[1].f = appLast.f /\ appLog[1].g = appLast.g /\ appLog[1].h = appLast.h
  /\ appLog[1].pos = appLast.pos
  /\ is_compl(appLog[1].res)
  /\ appLast.result = Some(appLog[1].res)

\* the state after insert(f, true, g, r) and get(f.neg(), g.neg(), false) on a
\* fresh table
InsertEqNeg ==
  /\ appLast.op = "get"
  /\ Len(appLog) = 1
  /\ app.table.stat.lookup_count = 1
  /\ appLog[1].g = true_node
  /\ appLast.f = neg(appLog[1].f)
  /\ appLast.g = neg(appLog[1].h)
  /\ appLast.h = false_node

\* C10: on a fresh table, after insert(f, true, g, r), get(f.neg(), g.neg(),
\* false) returns None or Some(r.neg()), never another value.
C10_IteNegation ==
  InsertEqNeg => appLast.result \in {None, Some(neg(appLog[1].res))}

\* the two triples share a slot, which holds a complemented result
C10_Witness ==
  /\ InsertEqNeg
  /\ appLog[1].pos = appLast.pos
  /\ is_compl(appLog[1].res)
  /\ appLast.result = None


\* -------------------------------------------------- claims on the BddTable

\* C7: deref(get_or_insert(b)) = b for every Bdd b (False, True or a node
\* whose variable is in the order), and this still holds for the handle after
\* any later get_or_insert calls.
C7_RoundTrip ==
  \A i \in 1..Len(btLog) : BddTable_deref(bt, btLog[i].ptr) = btLog[i].bdd

\* a later insertion took the bucket of an earlier element, which moved on
Displaced(t) ==
  \E p \in DOMAIN t.tbl :
    /\ (p + 1) % t.cap \in DOMAIN t.tbl
    /\ t.tbl[(p + 1) % t.cap].offset >= 1
    /\ t.tbl[p].idx > t.tbl[(p + 1) % t.cap].idx

\* handles of two variables' subtables with the same index, issued before a
\* later call displaced a cell of a probe array
C7_Witness ==
  /\ \E v \in DOMAIN bt.subtables : Displaced(bt.subtables[v])
  /\ \E i, j \in 1..Len(btLog) :
       /\ btLog[i].bdd.tag = "Node" /\ btLog[j].bdd.tag = "Node"
       /\ btLog[i].bdd.var # btLog[j].bdd.var
       /\ btLog[i].ptr.idx = btLog[j].ptr.idx

NodeCalls == {i \in 1..Len(btLog) : btLog[i].bdd.tag = "Node"}

\* C8: two Node arguments receive the same handle iff they are the same
\* (var, low, high) triple, and num_nodes() is the number of distinct Node
\* triples inserted so far.
C8_HashConsing ==
  /\ \A i, j \in NodeCalls : (btLog[i].ptr = btLog[j].ptr) <=> (btLog[i].bdd = btLog[j].bdd)
  /\ BddTable_num_nodes(bt) = Cardinality({btLog[i].bdd : i \in NodeCalls})

\* a node inserted twice, and two nodes that differ only in their variable
C8_Witness ==
  /\ \E i, j \in NodeCalls : i # j /\ btLog[i].bdd = btLog[j].bdd
  /\ \E i, j \in NodeCalls :
       /\ btLog[i].bdd.var # btLog[j].bdd.var
       /\ btLog[i].bdd.low = btLog[j].bdd.low
       /\ btLog[i].bdd.high = btLog[j].bdd.high
  /\ BddTable_num_nodes(bt) = 2


\* -------------------------------------------------- claims on the SddTable

\* the kind of sub-table the i-th in-order node of the vtree calls for
KindOf(v) == IF v.tag = "Leaf" THEN "BddSubTable" ELSE "SddSubTable"
TreeKind(pos) == KindOf(in_order_iter(sddTree)[pos + 1])
ValidPos(pos) == pos + 1 \in 1..Len(in_order_iter(sddTree))

\* C11: the table has one sub-table per in-order node of the vtree, a BDD
\* sub-table iff the node is a leaf; for every handle with a valid vtree index
\* exactly one of is_bdd and is_sdd is true; no operation changes the kind of a
\* position.
C11_VtreeAlignment ==
  /\ [](/\ Len(sdd.tables) = Len(in_order_iter(sddTree))
        /\ \A pos \in Positions : ValidPos(pos) => sdd.tables[pos + 1].kind = TreeKind(pos)
        /\ \A ptr \in QueryPtrs : ValidPos(ptr.vtree) =>
             /\ SddTable_is_bdd(sdd, ptr) = Ok(TreeKind(ptr.vtree) = "BddSubTable")
             /\ SddTable_is_sdd(sdd, ptr) = Ok(TreeKind(ptr.vtree) = "SddSubTable")
             /\ SddTable_is_bdd(sdd, ptr) # SddTable_is_sdd(sdd, ptr))
  /\ [][/\ Len(sdd'.tables) = Len(sdd.tables)
        /\ \A i \in 1..Len(sdd.tables) : sdd'.tables[i].kind = sdd.tables[i].kind]_vars

\* is_sdd answered true on a five-node vtree after an or-list was interned
C11_Witness ==
  /\ sddLast.op = "is_sdd"
  /\ sddLast.value = Some(TRUE)
  /\ Len(sdd.tables) = 5
  /\ Len(sddLog) >= 1

\* C12: get_or_insert_sdd and sdd_get_or at a leaf position, and bdd_man,
\* bdd_man_mut and bdd_conv at an internal position, fail with the mismatch
\* panic and return nothing; a failed get_or_insert_sdd leaves every sub-table
\* as it was.
C12_WrongKindFails ==
  /\ []((ValidPos(sddLast.pos) /\
         \/ /\ sddLast.op \in {"get_or_insert_sdd", "sdd_get_or"}
            /\ TreeKind(sddLast.pos) = "BddSubTable"
         \/ /\ sddLast.op \in {"bdd_man", "bdd_man_mut", "bdd_conv"}
            /\ TreeKind(sddLast.pos) = "SddSubTable")
        => (sddLast.outcome = "mismatch" /\ sddLast.value = None))
  /\ [][(sddLast'.op = "get_or_insert_sdd" /\ sddLast'.outcome # "ok")
        => (sdd' = sdd /\ sddLog' = sddLog)]_vars

\* get_or_insert_sdd failed at a leaf of a table that holds an or-list
C12_Witness ==
  /\ sddLast.op = "get_or_insert_sdd"
  /\ sddLast.outcome = "mismatch"
  /\ Len(sddLog) >= 1

\* C13: the handle get_or_insert_sdd(L, v) returned has vtree index v, is_sdd
\* of it is true and sdd_get_or of it is exactly L, in order, after every
\* later insertion.
C13_OrRoundTrip ==
  \A i \in 1..Len(sddLog) :
    /\ sddLog[i].ptr.vtree = sddLog[i].vnode
    /\ SddTable_is_sdd(sdd, sddLog[i].ptr) = Ok(TRUE)
    /\ SddTable_sdd_get_or(sdd, sddLog[i].ptr) = Ok(sddLog[i].nodes)

\* two or-lists with the same pairs in different order, interned at one position
C13_Witness ==
  /\ Len(sddLog) = 2
  /\ sddLog[1].vnode = sddLog[2].vnode
  /\ sddLog[1].ptr # sddLog[2].ptr
  /\ Len(sddLog[1].nodes) = 2 /\ Len(sddLog[2].nodes) = 2

RECURSIVE leaf_vars(_)
\* the variables of the leaves of a vtree, left to right
leaf_vars(v) == IF v.tag = "Leaf" THEN v.vars ELSE leaf_vars(v.l) \o leaf_vars(v.r)

\* every variable occurs in exactly one leaf, once
EachVarOnce(v) ==
  \A i, j \in 1..Len(leaf_vars(v)) : leaf_vars(v)[i] = leaf_vars(v)[j] => i = j

\* the reverse maps of the leaf positions
ConvMaps(s) == [i \in {j \in 1..Len(s.tables) : s.tables[j].kind = "BddSubTable"} |->
                  s.tables[i].conv]

\* C14: when every variable occurs in exactly one leaf and once, a leaf with
\* variables [v_0 .. v_(m-1)] has sdd_to_bdd[v_i] = i and conv[i] = v_i, conv
\* being defined on [0, m) only; the maps are never modified.
C14_LabelBijection ==
  /\ [](EachVarOnce(sddTree) =>
          \A pos \in Positions :
            (ValidPos(pos) /\ TreeKind(pos) = "BddSubTable") =>
              LET o == in_order_iter(sddTree)[pos + 1].vars
                  conv == SddTable_bdd_conv(sdd, pos)
              IN /\ conv.outcome = "ok"
                 /\ DOMAIN unwrap(conv.value) = 0..(Len(o) - 1)
                 /\ \A i \in 0..(Len(o) - 1) :
                      /\ SddTable_sdd_to_bdd_label(sdd, o[i + 1]) = Ok(i)
                      /\ unwrap(conv.value)[i] = o[i + 1])
  /\ [][sdd'.sdd_to_bdd = sdd.sdd_to_bdd /\ ConvMaps(sdd') = ConvMaps(sdd)]_vars

\* bdd_conv read at the leaf [3, 2] after an or-list was interned
C14_Witness ==
  /\ EachVarOnce(sddTree)
  /\ sddLast.op = "bdd_conv"
  /\ sddLast.outcome = "ok"
  /\ unwrap(sddLast.value) = (0 :> 3 @@ 1 :> 2)
  /\ Len(sddLog) >= 1

\* the number of slots of lru that hold an element
Occupied == vec_count_some(lru.tbl)

\* a step that is a get call on lru which returned
IsGetStep == lruGets'.calls = lruGets.calls + 1

\* a step that is an insert call on lru which returned
IsInsertStep == Len(lruLog') = Len(lruLog) + 1

(***************************************************************************)
(* C15: lookup_count equals the number of get calls made and miss_count the *)
(* number of those that returned None, so miss_count <= lookup_count; a get *)
(* returns None exactly when its slot is empty or holds a different key,    *)
(* and a get that returns Some leaves miss_count unchanged.                 *)
(***************************************************************************)
C15_LookupStatistics ==
  /\ [](/\ lru.stat.lookup_count = lruGets.calls
        /\ lru.stat.miss_count = lruGets.none
        /\ lru.stat.miss_count <= lru.stat.lookup_count)
  /\ [][IsGetStep =>
          LET slot == vec_get(lru.tbl, lruLast'.pos)
              missed == is_none(slot) \/ unwrap(slot).key # lruLast'.key
          IN /\ lruLast'.pos = pow_cap(FnvU64[lruLast'.key], lru.cap)
             /\ is_none(lruLast'.result) <=> missed
             /\ lru'.stat.lookup_count = lru.stat.lookup_count + 1
             /\ lru'.stat.miss_count = lru.stat.miss_count + (IF missed THEN 1 ELSE 0)]_vars

\* three gets were made: one on an empty slot, one on a slot holding another
\* key (both None), and a last one that returned the stored value
C15_Witness ==
  /\ lruGets = [calls |-> 3, none |-> 2]
  /\ Occupied = 1
  /\ lruLast.op = "get"
  /\ ~is_none(lruLast.result)

(***************************************************************************)
(* C16: insert increments conflict_count exactly when the target slot is    *)
(* already occupied, by the same key or by another, and overwrites the slot *)
(* in either case; so the number of insert calls equals conflict_count plus *)
(* the number of occupied slots.                                            *)
(***************************************************************************)
C16_ConflictCounter ==
  /\ [](Len(lruLog) = Lru_get_stats(lru).conflict_count + Occupied)
  /\ [][IsInsertStep =>
          LET pos == lruLast'.pos
              e == lruLog'[Len(lruLog')]
          IN /\ pos = pow_cap(FnvU64[e.key], lru.cap)
             /\ lru'.stat.conflict_count =
                  lru.stat.conflict_count + (IF is_none(vec_get(lru.tbl, pos)) THEN 0 ELSE 1)
             /\ vec_get(lru'.tbl, pos) = Some(e)]_vars

\* three inserts into one slot: the second repeats the key of the first, the
\* third brings another key; both were counted and the third is what is stored
C16_Witness ==
  /\ Len(lruLog) = 3
  /\ lruLog[1].key = lruLog[2].key
  /\ lruLog[3].key # lruLog[1].key
  /\ lru.stat.conflict_count = 2
  /\ Occupied = 1
  /\ vec_get(lru.tbl, lruLast.pos) = Some(lruLog[3])

(***************************************************************************)
(* C17: along any sequence of insert and get calls lookup_count, miss_count,*)
(* conflict_count and the number of occupied slots never decrease, and the  *)
(* reported utilization is occupied slots / 2^p, within [0, 1].             *)
(***************************************************************************)
C17_StatisticsMonotone ==
  /\ [][/\ Lru_get_stats(lru').lookup_count >= Lru_get_stats(lru).lookup_count
        /\ Lru_get_stats(lru').miss_count >= Lru_get_stats(lru).miss_count
        /\ Lru_get_stats(lru').conflict_count >= Lru_get_stats(lru).conflict_count
        /\ vec_count_some(lru'.tbl) >= vec_count_some(lru.tbl)]_vars
  /\ [](LET u == Lru_get_stats(lru).utilization
        IN /\ u.den > 0
           /\ u.num * Pow2(lru.cap) = Occupied * u.den
           /\ 0 <= u.num
           /\ u.num <= u.den)

\* every counter has moved and the table is partly filled
C17_Witness ==
  /\ Lru_get_stats(lru).lookup_count >= 1
  /\ Lru_get_stats(lru).miss_count >= 1
  /\ Lru_get_stats(lru).conflict_count >= 1
  /\ Lru_get_stats(lru).utilization = [num |-> 2, den |-> 4]

\* no two of the inserted operations have the same (op, a, b)
PairwiseDistinct ==
  \A x \in atLog, y \in atLog : (x.op = y.op /\ x.a = y.a /\ x.b = y.b) => x = y

(***************************************************************************)
(* C18: when the inserted operations (op, a, b) are pairwise distinct, get  *)
(* of each of them returns Some of exactly the result inserted for it, also *)
(* for the entries inserted before a growth of their sub-table.             *)
(***************************************************************************)
C18_Retrieval ==
  PairwiseDistinct =>
    \A x \in atLog : ApplyTable_get(at, x.op, x.a, x.b, acHash) = Some(x.result)

\* a sub-table that was made with 4 cells has grown to 32 while holding two
\* entries, and the third insertion swapped an entry out of its cell: that
\* entry sits further from its home cell than its offset says
C18_Witness ==
  /\ PairwiseDistinct
  /\ Cardinality(atLog) = 3
  /\ \E i \in DOMAIN at.and_tables :
       LET t == at.and_tables[i]
       IN /\ t.cap = 4 * AC_GROWTH_RATE
          /\ t.len = 3
          /\ \E pos \in DOMAIN t.tbl.at :
               LET c == t.tbl.at[pos]
               IN (pos - acHash[<<c.a, c.b>>]) % t.cap > c.offset
  /\ atLast.op = "get"
  /\ ~is_none(atLast.result)

RECURSIVE sum_len(_, _)
sum_len(tables, i) == IF i > Len(tables) THEN 0 ELSE tables[i].len + sum_len(tables, i + 1)

\* the number of elements stored in the sub-tables of t
ApplyTable_len(t) == sum_len(t.or_tables, 1) + sum_len(t.and_tables, 1)

\* an operation with its operands put in order: by variable, then by index
sorted_operands(a, b) ==
  IF a.var < b.var \/ (a.var = b.var /\ a.idx <= b.idx) THEN <<a, b>> ELSE <<b, a>>

(***************************************************************************)
(* C19: insert stores (op, a, b) and (op, b, a) as one entry: the table     *)
(* holds one element per inserted operation up to the order of its         *)
(* operands, and a lookup of an inserted operation with its operands       *)
(* exchanged finds the result that get returns for it as inserted.         *)
(***************************************************************************)
C19_OperandsNormalised ==
  /\ ApplyTable_len(at) =
       Cardinality({<<x.op, sorted_operands(x.a, x.b)>> : x \in atLog})
  /\ \A x \in atLog :
       ApplyTable_in_bounds(at, x.b) =>
         ApplyTable_get(at, x.op, x.b, x.a, acHash) = ApplyTable_get(at, x.op, x.a, x.b, acHash)

(***************************************************************************)
(* C20: after k calls of new_last on a BddTable made from an order of n     *)
(* variables the table has exactly n + k sub-tables, one per variable of    *)
(* the order; the i-th call returned the label n + i - 1, one greater than  *)
(* the largest label before it; and every label in [0, n + k), and no       *)
(* other, addresses an existing sub-table.                                  *)
(***************************************************************************)
C20_VariableExtension ==
  LET n == btNew.n
      k == Len(btNew.labels)
  IN /\ Len(bt.subtables) = n + k
     /\ bt.order = n + k
     /\ \A i \in 1..k : btNew.labels[i] = n + i - 1
     /\ \A v \in 0..NewLastLimit : has_subtable(bt, v) <=> v < n + k
     /\ \A i \in 1..Len(btLog) :
          btLog[i].bdd.tag = "Node" =>
            /\ btLog[i].bdd.var < n + k
            /\ BddTable_deref(bt, btLog[i].ptr).tag = "Node"

\* new_last was called twice on a table of one variable, and a node on each
\* of the two new labels was interned and is read back
C20_Witness ==
  /\ btNew = [kept |-> TRUE, n |-> 1, labels |-> <<1, 2>>]
  /\ \A var \in {1, 2} :
       \E i \in 1..Len(btLog) :
         /\ btLog[i].bdd.tag = "Node"
         /\ btLog[i].bdd.var = var
         /\ BddTable_deref(bt, btLog[i].ptr) = btLog[i].bdd

(***************************************************************************)
(* C21: creating a probe element whose index does not fit the 22-bit field  *)
(* fails with an overflow error; the index is never truncated, so the index *)
(* an element stores is the index it was created with.                      *)
(***************************************************************************)
C21_OverflowIsError ==
  elemNew.op # "none" =>
    /\ elemNew.idx >= Pow2(IDX_BITS) => elemNew.op = "OverflowError"
    /\ elemNew.op = "new" => elemNew.elem.idx = elemNew.idx

\* the indices of the element buffer that hold the pair (low, high)
ElemIndices(low, high) ==
  {i \in 1..Len(store.elem) : store.elem[i] = ToplessBdd_new(low, high)}

\* the occupied cells of the probe array that refer to the element index idx
CellsOf(idx) ==
  {pos \in DOMAIN store.tbl : store.tbl[pos].occupied = 1 /\ store.tbl[pos].idx = idx}

\* some cell of the probe array is free: the walk of find ends
HasFreeCell == \E pos \in DOMAIN store.tbl : store.tbl[pos].occupied = 0

(***************************************************************************)
(* C22: between calls of get_or_insert every index of the element buffer is *)
(* referenced by exactly one occupied probe cell; find of a pair that was   *)
(* inserted returns Some of the handle first issued for it, and find of a   *)
(* pair that was never inserted returns None (its walk reaches a free cell). *)
(***************************************************************************)
C22_PersistentLookup ==
  frame.pc = "idle" =>
    /\ \A i \in 1..Len(store.elem) : Cardinality(CellsOf(i - 1)) = 1
    /\ \A i \in 0..MaxLowIdx, j \in HighIdxs :
         LET held == ElemIndices(mk_ptr(i), mk_ptr(j))
         IN /\ held = {} => HasFreeCell
            /\ HasFreeCell =>
                 find(store, mk_ptr(i), mk_ptr(j)) =
                   IF held = {} THEN None
                   ELSE Some(issued_ptr(store, (CHOOSE m \in held : \A n \in held : m <= n) - 1))

\* the sub-tables of t, those of Or first
SubTables(t) == t.or_tables \o t.and_tables

\* the occupied cells of the sub-table st that hold the key (a, b)
KeyCells(st, a, b) ==
  {pos \in DOMAIN st.tbl.at : st.tbl.at[pos].a = a /\ st.tbl.at[pos].b = b}

\* the keys held by the sub-table st
KeysOf(st) == {<<st.tbl.at[pos].a, st.tbl.at[pos].b>> : pos \in DOMAIN st.tbl.at}

(***************************************************************************)
(* C23: each apply sub-table holds at most one occupied cell per key        *)
(* (a, b); a step that brings no new key into a sub-table (a get, or the    *)
(* insert of a key already present) leaves its len and its number of        *)
(* occupied cells as they were, and get of a key that is present keeps      *)
(* returning the same result after every step.                              *)
(***************************************************************************)
C23_KeyUniqueness ==
  /\ [](\A i \in DOMAIN SubTables(at) : \A ab \in DOMAIN acHash :
          Cardinality(KeyCells(SubTables(at)[i], ab[1], ab[2])) <= 1)
  /\ [][\A i \in DOMAIN SubTables(at) :
          LET st == SubTables(at)[i]
              st_next == SubTables(at')[i]
          IN /\ KeysOf(st_next) = KeysOf(st) =>
                  /\ st_next.len = st.len
                  /\ Cardinality(DOMAIN st_next.tbl.at) = Cardinality(DOMAIN st.tbl.at)
             /\ \A ab \in KeysOf(st) :
                  ApplySubTable_get(st_next, ab[1], ab[2], acHash) =
                    ApplySubTable_get(st, ab[1], ab[2], acHash)]_vars

\* the number of occupied cells of the sub-table st
OccupiedCells(st) == Cardinality(DOMAIN st.tbl.at)

(***************************************************************************)
(* C24: in every apply sub-table len is the number of occupied cells, len   *)
(* is at most 0.7 x cap, and at least one cell is free (so the probe loops  *)
(* of insert and get end); an insert multiplies cap by 8 exactly when       *)
(* len + 1 > 0.7 x cap held on its entry, and leaves cap alone otherwise.   *)
(***************************************************************************)
C24_LoadInvariant ==
  /\ [](\A i \in DOMAIN SubTables(at) :
          LET st == SubTables(at)[i]
          IN /\ st.len = OccupiedCells(st)
             /\ st.len * AC_LOAD_FACTOR_DEN <= st.cap * AC_LOAD_FACTOR_NUM
             /\ OccupiedCells(st) < st.cap)
  /\ [][\A i \in DOMAIN SubTables(at) :
          LET st == SubTables(at)[i]
              st_next == SubTables(at')[i]
          IN st_next # st =>
               st_next.cap =
                 IF (st.len + 1) * AC_LOAD_FACTOR_DEN > st.cap * AC_LOAD_FACTOR_NUM
                 THEN st.cap * AC_GROWTH_RATE
                 ELSE st.cap]_vars

\* the third insertion has returned: the And sub-table that took the three
\* entries was made with 4 cells and has 32, the Or sub-tables still have 4
C24_Witness ==
  /\ atLast.op = "insert"
  /\ \E i \in DOMAIN at.and_tables :
       /\ at.and_tables[i].cap = 4 * AC_GROWTH_RATE
       /\ OccupiedCells(at.and_tables[i]) = 3
  /\ \A i \in DOMAIN at.or_tables : at.or_tables[i].cap = 4

\* the place in SubTables(t) of the sub-table of operator op for the variable
\* of the operand a
SubTableOf(t, op, a) == IF op = BddOr THEN a.var + 1 ELSE Len(t.or_tables) + a.var + 1

\* the sub-tables that a step changes
ChangedSubTables == {i \in DOMAIN SubTables(at) : SubTables(at')[i] # SubTables(at)[i]}

(***************************************************************************)
(* C25: insert(ApplyOp(op, a, b), r) changes no sub-table but the one of    *)
(* operator op at index a.var(): every other sub-table is as it was, and    *)
(* get of an operation of the other operator, or of one whose first operand *)
(* has another variable, returns what it returned before; every entry sits  *)
(* in the sub-table of its first operand's variable; and get changes no     *)
(* sub-table.                                                               *)
(***************************************************************************)
C25_Isolation ==
  /\ [](\A i \in DOMAIN at.and_tables : \A ab \in KeysOf(at.and_tables[i]) : ab[1].var = i - 1)
  /\ [](\A i \in DOMAIN at.or_tables : \A ab \in KeysOf(at.or_tables[i]) : ab[1].var = i - 1)
  /\ [][/\ Cardinality(ChangedSubTables) <= 1
        /\ atLast'.op # "insert" => at' = at
        /\ \A x \in atLog' \ atLog :
             /\ ChangedSubTables \subseteq {SubTableOf(at, x.op, x.a)}
             /\ \A o \in ApplyOps :
                  (ApplyTable_in_bounds(at, o.a) /\ (o.op # x.op \/ o.a.var # x.a.var)) =>
                    ApplyTable_get(at', o.op, o.a, o.b, acHash) =
                      ApplyTable_get(at, o.op, o.a, o.b, acHash)]_vars

\* the And sub-tables of variables 0 and 1 and the Or sub-table of variable 0
\* hold one entry each, and the last call was a get that found its operation
C25_Witness ==
  /\ Len(at.and_tables) = 2
  /\ at.and_tables[1].len = 1
  /\ at.and_tables[2].len = 1
  /\ at.or_tables[1].len = 1
  /\ at.or_tables[2].len = 0
  /\ atLast.op = "get"
  /\ ~is_none(atLast.result)

\* the cyclic distance of the cell pos of the sub-table st from the home cell
\* of the key it holds, hash_pair(a, b) mod cap
HomeDistance(st, pos) ==
  (pos - (acHash[<<st.tbl.at[pos].a, st.tbl.at[pos].b>>] % st.cap)) % st.cap

RECURSIVE sum_distance(_, _)
sum_distance(st, cells) ==
  IF cells = {} THEN 0
  ELSE LET pos == CHOOSE p \in cells : TRUE
       IN HomeDistance(st, pos) + sum_distance(st, cells \ {pos})

(***************************************************************************)
(* C26: the offset stored in every occupied cell of an apply sub-table is   *)
(* the cyclic distance of the cell from the home cell of its key, so        *)
(* avg_offset is the sum of these distances over len.                       *)
(***************************************************************************)
C26_OffsetsExact ==
  \A i \in DOMAIN SubTables(at) :
    LET st == SubTables(at)[i]
    IN /\ \A pos \in DOMAIN st.tbl.at : st.tbl.at[pos].offset = HomeDistance(st, pos)
       /\ ApplySubTable_avg_offset(st) =
            [num |-> sum_distance(st, DOMAIN st.tbl.at), den |-> st.len]

====
